---- MODULE Spec2Model ----
(***************************************************************************)
(* Request / assignment lifecycle of the HAL SmartMove transport backend:  *)
(* the transport_requests, vehicle_assignments and drivers tables and the  *)
(* route handlers that change them (backend/app/routes/admin.py,           *)
(* transport.py, transport_requests.py, drivers.py).                       *)
(***************************************************************************)
EXTENDS Integers, Sequences, FiniteSets, TLC

(* ---------------------------- bounds ----------------------------------- *)
MaxRequests == 2      \* rows the model lets transport_requests grow to
NumVehicles == 1      \* rows of the vehicles table
NumDrivers == 2       \* rows of the drivers table
MaxTimeIdx == 3       \* times of day are 0, 15, .., 15 * MaxTimeIdx minutes
MaxRequestTimeIdx == 2 \* request times are 0, 15, .., 15 * MaxRequestTimeIdx
MaxDate == 1          \* request dates are 1 .. MaxDate
NumUsers == 1         \* employees who create requests
MaxPassengers == 1    \* passenger_count is 1 .. MaxPassengers
NumProcs == 2         \* concurrently running approval handlers (SpecConc)
MaxTrips == 2         \* schedule_request calls the model lets a scheduler serve
MaxFlexIdx == 24      \* flexibility_minutes is 0, 5, .., 5 * MaxFlexIdx
MaxBatch == 2         \* requests in one schedule_multiple_requests call

Vehicles == 1..NumVehicles
(* The vehicles table holds one more active row than the admin of Spec
   proposes; SpecFleet proposes every row. *)
FleetVehicles == 1..(NumVehicles + 1)
Drivers == 1..NumDrivers
Times == {15 * k : k \in 0..MaxTimeIdx}
RequestTimes == {15 * k : k \in 0..MaxRequestTimeIdx}
Dates == 1..MaxDate
Users == 1..NumUsers
PassengerCounts == 1..MaxPassengers
Procs == 1..NumProcs

(* SQL NULL of a column that an INSERT leaves unset. *)
NULL == -1
(* bulk_data.vehicle_id / driver_id left at their default None. *)
None == 0

(* RequestStatus / AssignmentStatus values used by the handlers. *)
PENDING == "pending"
APPROVED == "approved"
REJECTED == "rejected"
CANCELLED == "cancelled"
COMPLETED == "completed"
ASSIGNED == "assigned"
IN_PROGRESS == "in_progress"

VARIABLES
    requests,       \* transport_requests table: sequence, id = index
    assignments,    \* vehicle_assignments table: sequence, id = index
    is_available,   \* drivers.is_available, by driver id
    response,       \* what the last handler returned: [code]
    pc,             \* SpecConc: position of each approval handler
    local,          \* SpecConc: the proposal each approval handler holds
    scheduled_trips, \* AutomatedScheduler.scheduled_trips: sequence of trips
    result,         \* what the last schedule_request call did and returned
    batch           \* the schedule_multiple_requests call: its position and locals

vars == <<requests, assignments, is_available, response, pc, local, scheduled_trips, result, batch>>
db == <<requests, assignments, is_available>>
routes == <<requests, assignments, is_available, response, pc, local>>
sched == <<scheduled_trips, result, batch>>

RequestIds == DOMAIN requests
AssignmentIds == DOMAIN assignments

(* Every vehicle and driver of the model is a registered, active row. *)
vehicle_is_active(v) == v \in FleetVehicles
driver_is_active(d) == d \in Drivers

Reply(code, detail) == [code |-> code]

(* SQL comparison: a comparison with NULL is not true. *)
SqlLE(a, b) == a # NULL /\ b # NULL /\ a <= b
SqlGE(a, b) == a # NULL /\ b # NULL /\ a >= b

TypeOK ==
    /\ Len(requests) <= MaxRequests
    /\ \A i \in RequestIds :
          /\ requests[i].user_id \in Users
          /\ requests[i].passenger_count \in PassengerCounts
          /\ requests[i].request_date \in Dates
          /\ requests[i].request_time \in RequestTimes
          /\ requests[i].status \in {PENDING, APPROVED, REJECTED, CANCELLED, COMPLETED}
    /\ \A a \in AssignmentIds :
          /\ assignments[a].request_id \in RequestIds
          /\ assignments[a].vehicle_id \in FleetVehicles
          /\ assignments[a].driver_id \in Drivers
          /\ assignments[a].status \in {ASSIGNED, IN_PROGRESS, COMPLETED, CANCELLED}
    /\ is_available \in [Drivers -> BOOLEAN]

(* The database after setup: no requests, no assignments, drivers.is_available
   at its column default. *)
Init ==
    /\ requests = <<>>
    /\ assignments = <<>>
    /\ is_available = [d \in Drivers |-> TRUE]
    /\ response = Reply(0, "")
    /\ pc = [p \in Procs |-> "idle"]
    /\ local = [p \in Procs |-> <<>>]
    /\ scheduled_trips = <<>>
    /\ result = [called |-> FALSE]
    /\ batch = [pc |-> "idle"]

(* ---------------- transport_requests.py: create_request ---------------- *)
(* Minutes two requests of one user must be apart (time_diff < 30). *)
MinGapMinutes == 30

Abs(x) == IF x < 0 THEN -x ELSE x

nearby_requests(user_id, request_date) ==
    {i \in RequestIds :
        /\ requests[i].user_id = user_id
        /\ requests[i].request_date = request_date
        /\ requests[i].status \in {PENDING, APPROVED}}

create_request(current_user, request_date, request_time, passenger_count) ==
    /\ Len(requests) < MaxRequests
    /\ IF \E i \in nearby_requests(current_user, request_date) :
              requests[i].request_time = request_time
       THEN /\ response' = Reply(400, "exact date and time")
            /\ UNCHANGED db
       ELSE IF \E i \in nearby_requests(current_user, request_date) :
              Abs(request_time - requests[i].request_time) < MinGapMinutes
       THEN /\ response' = Reply(400, "30 minutes gap")
            /\ UNCHANGED db
       ELSE /\ requests' = Append(requests,
                   [user_id |-> current_user,
                    passenger_count |-> passenger_count,
                    request_date |-> request_date,
                    request_time |-> request_time,
                    status |-> PENDING])
            /\ response' = Reply(200, "created")
            /\ UNCHANGED <<assignments, is_available>>
    /\ UNCHANGED <<pc, local>>

(* --------- admin.py: approve_request_with_assignment ------------------- *)
(* The rows the conflict_check query matches (lines 349-369). *)
conflict_check(request_id, vehicle_id, driver_id, estimated_departure, estimated_arrival) ==
    {a \in AssignmentIds :
        /\ \/ assignments[a].vehicle_id = vehicle_id
           \/ assignments[a].driver_id = driver_id
        /\ requests[assignments[a].request_id].request_date
              = requests[request_id].request_date
        /\ assignments[a].status \in {ASSIGNED, IN_PROGRESS}
        /\ \/ /\ SqlLE(assignments[a].estimated_departure, estimated_departure)
              /\ SqlGE(assignments[a].estimated_arrival, estimated_departure)
           \/ /\ SqlLE(assignments[a].estimated_departure, estimated_arrival)
              /\ SqlGE(assignments[a].estimated_arrival, estimated_arrival)}

(* approve_checks without the test of request.status. *)
approve_checks_any_status(request_id, vehicle_id, driver_id, estimated_departure, estimated_arrival) ==
    IF request_id \notin RequestIds
    THEN Reply(404, "Request not found")
    ELSE IF ~vehicle_is_active(vehicle_id)
    THEN Reply(404, "Vehicle not found or inactive")
    ELSE IF ~(driver_is_active(driver_id) /\ is_available[driver_id])
    THEN Reply(404, "Driver not found or unavailable")
    ELSE IF conflict_check(request_id, vehicle_id, driver_id, estimated_departure, estimated_arrival) # {}
    THEN Reply(400, "already assigned")
    ELSE Reply(200, "Request approved successfully")

(* The checks made before anything is written (lines 311-406): the reply of
   the first check that fails, or code 200 when all pass. *)
approve_checks(request_id, vehicle_id, driver_id, estimated_departure, estimated_arrival) ==
    IF request_id \notin RequestIds
    THEN Reply(404, "Request not found")
    ELSE IF requests[request_id].status # PENDING
    THEN Reply(400, "Can only approve pending requests")
    ELSE IF ~vehicle_is_active(vehicle_id)
    THEN Reply(404, "Vehicle not found or inactive")
    ELSE IF ~(driver_is_active(driver_id) /\ is_available[driver_id])
    THEN Reply(404, "Driver not found or unavailable")
    ELSE IF conflict_check(request_id, vehicle_id, driver_id,
                           estimated_departure, estimated_arrival) # {}
    THEN Reply(400, "already assigned")
    ELSE Reply(200, "Request approved successfully")

(* The writes of lines 408-431 and the commit. *)
approve_commit(request_id, vehicle_id, driver_id, estimated_departure, estimated_arrival) ==
    /\ requests' = [requests EXCEPT ![request_id].status = APPROVED]
    /\ assignments' = Append(assignments,
           [request_id |-> request_id,
            vehicle_id |-> vehicle_id,
            driver_id |-> driver_id,
            estimated_departure |-> estimated_departure,
            estimated_arrival |-> estimated_arrival,
            status |-> ASSIGNED])
    /\ is_available' = [is_available EXCEPT ![driver_id] = FALSE]

approve_request_with_assignment(request_id, vehicle_id, driver_id, estimated_departure, estimated_arrival) ==
    LET r == approve_checks(request_id, vehicle_id, driver_id,
                            estimated_departure, estimated_arrival)
    IN  /\ response' = r
        /\ IF r.code = 200
           THEN approve_commit(request_id, vehicle_id, driver_id,
                               estimated_departure, estimated_arrival)
           ELSE UNCHANGED db
        /\ UNCHANGED <<pc, local>>

(* --------- approve_request_with_assignment with its error detail ------- *)
(* Lines 388-390: which resource the row found by the conflict query shares
   with the proposal. *)
conflicted_resource(a, vehicle_id, driver_id) ==
    IF /\ assignments[a].vehicle_id = vehicle_id
       /\ assignments[a].driver_id = driver_id
    THEN "both vehicle and driver"
    ELSE IF assignments[a].vehicle_id = vehicle_id
    THEN "vehicle"
    ELSE "driver"

(* conflicted_resource with the test for a row sharing both ids left out. *)
conflict_detail_one_resource(a, vehicle_id, driver_id) ==
    [code |-> 400,
     conflicted_resource |->
        IF assignments[a].vehicle_id = vehicle_id THEN "vehicle" ELSE "driver",
     conflict_time |-> <<assignments[a].estimated_departure,
                         assignments[a].estimated_arrival>>]

(* Lines 392-406: the 400 raised for the row a that the conflict query
   returned. *)
conflict_detail(a, vehicle_id, driver_id) ==
    [code |-> 400,
     conflicted_resource |-> conflicted_resource(a, vehicle_id, driver_id),
     conflict_time |-> <<assignments[a].estimated_departure,
                         assignments[a].estimated_arrival>>]

(* Lines 311-346: the request is there and pending, the vehicle is an active
   row and the driver an active row flagged available. *)
lookups_pass(request_id, vehicle_id, driver_id) ==
    /\ request_id \in RequestIds
    /\ requests[request_id].status = PENDING
    /\ vehicle_is_active(vehicle_id)
    /\ driver_is_active(driver_id)
    /\ is_available[driver_id]

(* The handler with the driver's flag written before the conflict query. *)
approve_reporting_conflict_holds_driver(request_id, vehicle_id, driver_id, estimated_departure, estimated_arrival) ==
    /\ IF ~lookups_pass(request_id, vehicle_id, driver_id)
       THEN /\ response' = approve_checks(request_id, vehicle_id, driver_id, estimated_departure, estimated_arrival)
            /\ UNCHANGED db
       ELSE IF conflict_check(request_id, vehicle_id, driver_id, estimated_departure, estimated_arrival) = {}
       THEN /\ approve_commit(request_id, vehicle_id, driver_id, estimated_departure, estimated_arrival)
            /\ response' = Reply(200, "Request approved successfully")
       ELSE /\ \E a \in conflict_check(request_id, vehicle_id, driver_id, estimated_departure, estimated_arrival) :
                  response' = conflict_detail(a, vehicle_id, driver_id)
            /\ is_available' = [is_available EXCEPT ![driver_id] = FALSE]
            /\ UNCHANGED <<requests, assignments>>
    /\ UNCHANGED <<pc, local>>

(* The whole handler (lines 301-431), its reply carrying the detail of the
   conflict error. The conflict query ends in .first() without ORDER BY: the
   row it returns is any of the rows it matches. *)
approve_reporting_conflict(request_id, vehicle_id, driver_id, estimated_departure, estimated_arrival) ==
    /\ IF ~lookups_pass(request_id, vehicle_id, driver_id)
       THEN /\ response' = approve_checks(request_id, vehicle_id, driver_id, estimated_departure, estimated_arrival)
            /\ UNCHANGED db
       ELSE IF conflict_check(request_id, vehicle_id, driver_id, estimated_departure, estimated_arrival) = {}
       THEN /\ approve_commit(request_id, vehicle_id, driver_id, estimated_departure, estimated_arrival)
            /\ response' = Reply(200, "Request approved successfully")
       ELSE /\ \E a \in conflict_check(request_id, vehicle_id, driver_id, estimated_departure, estimated_arrival) :
                  response' = conflict_detail(a, vehicle_id, driver_id)
            /\ UNCHANGED db
    /\ UNCHANGED <<pc, local>>

(* ------- admin.py: reject_request_with_reason / reject_request_unified - *)
reject_request(request_id) ==
    /\ IF request_id \notin RequestIds
       THEN response' = Reply(404, "Request not found") /\ UNCHANGED db
       ELSE IF requests[request_id].status # PENDING
       THEN response' = Reply(400, "Can only reject pending requests") /\ UNCHANGED db
       ELSE /\ requests' = [requests EXCEPT ![request_id].status = REJECTED]
            /\ response' = Reply(200, "Request rejected successfully")
            /\ UNCHANGED <<assignments, is_available>>
    /\ UNCHANGED <<pc, local>>

reject_request_with_reason(request_id) == reject_request(request_id)

reject_request_unified(request_id) == reject_request(request_id)

(* ---------------- admin.py: approve_request_unified -------------------- *)
approve_request_unified(request_id) ==
    /\ IF request_id \notin RequestIds
       THEN response' = Reply(404, "Request not found") /\ UNCHANGED db
       ELSE IF requests[request_id].status # PENDING
       THEN response' = Reply(400, "Can only approve pending requests") /\ UNCHANGED db
       ELSE /\ requests' = [requests EXCEPT ![request_id].status = APPROVED]
            /\ response' = Reply(200, "Request approved successfully")
            /\ UNCHANGED <<assignments, is_available>>
    /\ UNCHANGED <<pc, local>>

(* Rows of vehicle_assignments that belong to a request; .first() takes one. *)
rows_of(request_id) ==
    {a \in AssignmentIds : assignments[a].request_id = request_id}

(* ---------------- admin.py: cancel_request_unified --------------------- *)
(* cancel_request_unified with the guard of a handler that cancels approved
   requests only. *)
cancel_request_unified_approved_only(request_id) ==
    /\ IF request_id \notin RequestIds
       THEN response' = Reply(404, "Request not found") /\ UNCHANGED db
       ELSE IF requests[request_id].status # APPROVED
       THEN /\ response' = Reply(400, "Cannot cancel completed or already cancelled request")
            /\ UNCHANGED db
       ELSE /\ requests' = [requests EXCEPT ![request_id].status = CANCELLED]
            /\ IF rows_of(request_id) = {}
               THEN UNCHANGED <<assignments, is_available>>
               ELSE \E a \in rows_of(request_id) :
                      /\ assignments' = [assignments EXCEPT ![a].status = CANCELLED]
                      /\ is_available' =
                            [is_available EXCEPT ![assignments[a].driver_id] = TRUE]
            /\ response' = Reply(200, "Request cancelled successfully")
    /\ UNCHANGED <<pc, local>>

cancel_request_unified(request_id) ==
    /\ IF request_id \notin RequestIds
       THEN response' = Reply(404, "Request not found") /\ UNCHANGED db
       ELSE IF requests[request_id].status \in {COMPLETED, CANCELLED}
       THEN /\ response' = Reply(400, "Cannot cancel completed or already cancelled request")
            /\ UNCHANGED db
       ELSE /\ requests' = [requests EXCEPT ![request_id].status = CANCELLED]
            /\ IF rows_of(request_id) = {}
               THEN UNCHANGED <<assignments, is_available>>
               ELSE \E a \in rows_of(request_id) :
                      /\ assignments' = [assignments EXCEPT ![a].status = CANCELLED]
                      /\ is_available' =
                            [is_available EXCEPT ![assignments[a].driver_id] = TRUE]
            /\ response' = Reply(200, "Request cancelled successfully")
    /\ UNCHANGED <<pc, local>>

(* ---------------- transport_requests.py: cancel_request ---------------- *)
(* cancel_request with the assignment of the request left as it is. *)
cancel_request_keeps_assignment(request_id, current_user) ==
    /\ IF request_id \notin RequestIds \/ requests[request_id].user_id # current_user
       THEN response' = Reply(404, "Request not found") /\ UNCHANGED db
       ELSE IF requests[request_id].status \in {COMPLETED, CANCELLED}
       THEN /\ response' = Reply(400, "Cannot cancel completed or already cancelled request")
            /\ UNCHANGED db
       ELSE /\ requests' = [requests EXCEPT ![request_id].status = CANCELLED]
            /\ UNCHANGED <<assignments, is_available>>
            /\ response' = Reply(200, "Request cancelled successfully")
    /\ UNCHANGED <<pc, local>>

cancel_request(request_id, current_user) ==
    /\ IF request_id \notin RequestIds \/ requests[request_id].user_id # current_user
       THEN response' = Reply(404, "Request not found") /\ UNCHANGED db
       ELSE IF requests[request_id].status \in {COMPLETED, CANCELLED}
       THEN /\ response' = Reply(400, "Cannot cancel completed or already cancelled request")
            /\ UNCHANGED db
       ELSE /\ requests' = [requests EXCEPT ![request_id].status = CANCELLED]
            /\ IF rows_of(request_id) = {}
               THEN UNCHANGED assignments
               ELSE \E a \in rows_of(request_id) :
                      assignments' = [assignments EXCEPT ![a].status = CANCELLED]
            /\ UNCHANGED is_available
            /\ response' = Reply(200, "Request cancelled successfully")
    /\ UNCHANGED <<pc, local>>

(* ---------------- transport_requests.py: update_request ---------------- *)
update_request(request_id, current_user, passenger_count) ==
    /\ IF request_id \notin RequestIds \/ requests[request_id].user_id # current_user
       THEN response' = Reply(404, "Request not found") /\ UNCHANGED db
       ELSE IF requests[request_id].status # PENDING
       THEN response' = Reply(400, "Can only update pending requests") /\ UNCHANGED db
       ELSE /\ requests' = [requests EXCEPT ![request_id].passenger_count = passenger_count]
            /\ response' = Reply(200, "updated")
            /\ UNCHANGED <<assignments, is_available>>
    /\ UNCHANGED <<pc, local>>

(* ---------------- transport.py: start_trip / complete_trip ------------- *)
start_trip(assignment_id, driver) ==
    /\ IF assignment_id \notin AssignmentIds \/ assignments[assignment_id].driver_id # driver
       THEN response' = Reply(404, "Assignment not found") /\ UNCHANGED db
       ELSE IF assignments[assignment_id].status # ASSIGNED
       THEN /\ response' = Reply(400, "Trip can only be started from assigned status")
            /\ UNCHANGED db
       ELSE /\ assignments' = [assignments EXCEPT ![assignment_id].status = IN_PROGRESS]
            /\ response' = Reply(200, "Trip started successfully")
            /\ UNCHANGED <<requests, is_available>>
    /\ UNCHANGED <<pc, local>>

(* complete_trip without the test of assignment.status. *)
complete_trip_any_status(assignment_id, driver) ==
    /\ IF assignment_id \notin AssignmentIds \/ assignments[assignment_id].driver_id # driver
       THEN response' = Reply(404, "Assignment not found") /\ UNCHANGED db
       ELSE /\ assignments' = [assignments EXCEPT ![assignment_id].status = COMPLETED]
            /\ requests' = [requests EXCEPT
                               ![assignments[assignment_id].request_id].status = COMPLETED]
            /\ is_available' = [is_available EXCEPT ![driver] = TRUE]
            /\ response' = Reply(200, "Trip completed successfully")
    /\ UNCHANGED <<pc, local>>

(* complete_trip that leaves drivers.is_available as it was. *)
complete_trip_keeps_flag(assignment_id, driver) ==
    /\ IF assignment_id \notin AssignmentIds \/ assignments[assignment_id].driver_id # driver
       THEN response' = Reply(404, "Assignment not found") /\ UNCHANGED db
       ELSE IF assignments[assignment_id].status # IN_PROGRESS
       THEN /\ response' = Reply(400, "Trip can only be completed from in-progress status")
            /\ UNCHANGED db
       ELSE /\ assignments' = [assignments EXCEPT ![assignment_id].status = COMPLETED]
            /\ requests' = [requests EXCEPT
                               ![assignments[assignment_id].request_id].status = COMPLETED]
            /\ UNCHANGED is_available
            /\ response' = Reply(200, "Trip completed successfully")
    /\ UNCHANGED <<pc, local>>

complete_trip(assignment_id, driver) ==
    /\ IF assignment_id \notin AssignmentIds \/ assignments[assignment_id].driver_id # driver
       THEN response' = Reply(404, "Assignment not found") /\ UNCHANGED db
       ELSE IF assignments[assignment_id].status # IN_PROGRESS
       THEN /\ response' = Reply(400, "Trip can only be completed from in-progress status")
            /\ UNCHANGED db
       ELSE /\ assignments' = [assignments EXCEPT ![assignment_id].status = COMPLETED]
            /\ requests' = [requests EXCEPT
                               ![assignments[assignment_id].request_id].status = COMPLETED]
            /\ is_available' = [is_available EXCEPT ![driver] = TRUE]
            /\ response' = Reply(200, "Trip completed successfully")
    /\ UNCHANGED <<pc, local>>

(* ---------------- drivers.py: update_driver_availability --------------- *)
update_driver_availability(driver_id, available) ==
    /\ driver_id \in Drivers
    /\ is_available' = [is_available EXCEPT ![driver_id] = available]
    /\ response' = Reply(200, "Driver availability updated successfully")
    /\ UNCHANGED <<requests, assignments, pc, local>>

(* ---------------- admin.py: bulk_request_action ------------------------ *)
BulkActions == {"approve", "reject", "cancel"}

(* bulk_new_assignments without the test of request.status. *)
RECURSIVE bulk_new_assignments_all(_, _, _, _)
bulk_new_assignments_all(i, request_ids, vehicle_id, driver_id) ==
    IF i > Len(requests)
    THEN <<>>
    ELSE (IF i \in request_ids
          THEN <<[request_id |-> i,
                  vehicle_id |-> vehicle_id,
                  driver_id |-> driver_id,
                  estimated_departure |-> requests[i].request_time,
                  estimated_arrival |-> NULL,
                  status |-> ASSIGNED]>>
          ELSE <<>>)
         \o bulk_new_assignments_all(i + 1, request_ids, vehicle_id, driver_id)

(* The VehicleAssignment rows a bulk approve adds, one per pending request of
   request_ids, in id order; estimated_arrival is not set. *)
RECURSIVE bulk_new_assignments(_, _, _, _)
bulk_new_assignments(i, request_ids, vehicle_id, driver_id) ==
    IF i > Len(requests)
    THEN <<>>
    ELSE (IF i \in request_ids /\ requests[i].status = PENDING
          THEN <<[request_id |-> i,
                  vehicle_id |-> vehicle_id,
                  driver_id |-> driver_id,
                  estimated_departure |-> requests[i].request_time,
                  estimated_arrival |-> NULL,
                  status |-> ASSIGNED]>>
          ELSE <<>>)
         \o bulk_new_assignments(i + 1, request_ids, vehicle_id, driver_id)

bulk_approve(request_ids, vehicle_id, driver_id) ==
    LET hit == {i \in request_ids : requests[i].status = PENDING}
        resources == vehicle_id # None /\ driver_id # None
    IN  IF ~resources
        THEN /\ response' = Reply(200, "Bulk approve completed")
             /\ UNCHANGED db
        ELSE /\ requests' = [i \in RequestIds |->
                               IF i \in hit
                               THEN [requests[i] EXCEPT !.status = APPROVED]
                               ELSE requests[i]]
             /\ assignments' = assignments
                                 \o bulk_new_assignments(1, request_ids, vehicle_id, driver_id)
             /\ is_available' = IF hit # {}
                                THEN [is_available EXCEPT ![driver_id] = FALSE]
                                ELSE is_available
             /\ response' = Reply(200, "Bulk approve completed")

bulk_reject(request_ids) ==
    LET hit == {i \in request_ids : requests[i].status = PENDING}
    IN  /\ requests' = [i \in RequestIds |->
                          IF i \in hit
                          THEN [requests[i] EXCEPT !.status = REJECTED]
                          ELSE requests[i]]
        /\ UNCHANGED <<assignments, is_available>>
        /\ response' = Reply(200, "Bulk reject completed")

bulk_cancel(request_ids) ==
    LET hit == {i \in request_ids : requests[i].status \in {PENDING, APPROVED}}
        withRows == {i \in hit : rows_of(i) # {}}
    IN  /\ requests' = [i \in RequestIds |->
                          IF i \in hit
                          THEN [requests[i] EXCEPT !.status = CANCELLED]
                          ELSE requests[i]]
        /\ \E first \in [withRows -> AssignmentIds] :
              /\ \A i \in withRows : first[i] \in rows_of(i)
              /\ assignments' = [a \in AssignmentIds |->
                                   IF \E i \in withRows : first[i] = a
                                   THEN [assignments[a] EXCEPT !.status = CANCELLED]
                                   ELSE assignments[a]]
              /\ is_available' = [d \in Drivers |->
                                    IF \E i \in withRows : assignments[first[i]].driver_id = d
                                    THEN TRUE
                                    ELSE is_available[d]]
        /\ response' = Reply(200, "Bulk cancel completed")

bulk_request_action(request_ids, action, vehicle_id, driver_id) ==
    /\ IF request_ids = {}
       THEN response' = Reply(400, "No request IDs provided") /\ UNCHANGED db
       ELSE IF ~(request_ids \subseteq RequestIds)
       THEN response' = Reply(404, "Some requests not found") /\ UNCHANGED db
       ELSE IF action = "approve"
       THEN bulk_approve(request_ids, vehicle_id, driver_id)
       ELSE IF action = "reject"
       THEN bulk_reject(request_ids)
       ELSE bulk_cancel(request_ids)
    /\ UNCHANGED <<pc, local>>

(* The (estimated_departure, estimated_arrival) pairs an admin proposes. *)
Proposals == {p \in Times \X Times : p[1] < p[2]}

(* ---- approve_request_with_assignment as two steps of one handler ------ *)
(* Lines 311-406 read the tables and decide; lines 408-431 write and commit.
   Another handler may run between the two. seen is the number of
   vehicle_assignments rows that existed when the conflict query ran. *)
approve_begin(p, request_id, vehicle_id, driver_id, estimated_departure, estimated_arrival) ==
    LET r == approve_checks(request_id, vehicle_id, driver_id, estimated_departure, estimated_arrival)
    IN  /\ pc[p] = "idle"
        /\ IF r.code = 200
           THEN /\ pc' = [pc EXCEPT ![p] = "commit"]
                /\ local' = [local EXCEPT ![p] =
                       [request_id |-> request_id,
                        vehicle_id |-> vehicle_id,
                        driver_id |-> driver_id,
                        estimated_departure |-> estimated_departure,
                        estimated_arrival |-> estimated_arrival,
                        seen |-> Len(assignments),
                        row |-> 0]]
                /\ UNCHANGED response
           ELSE /\ response' = r
                /\ UNCHANGED <<pc, local>>
        /\ UNCHANGED db

approve_finish(p) ==
    /\ pc[p] = "commit"
    /\ approve_commit(local[p].request_id, local[p].vehicle_id, local[p].driver_id, local[p].estimated_departure, local[p].estimated_arrival)
    /\ response' = Reply(200, "Request approved successfully")
    /\ pc' = [pc EXCEPT ![p] = "done"]
    /\ local' = [local EXCEPT ![p].row = Len(assignments) + 1]

(* ---- create_request as two steps of one handler ------------------------ *)
(* Lines 34-70 read the user's pending and approved requests and decide;
   lines 72-79 insert and commit. The handler holds no lock and the table has
   no constraint on (user_id, request_date, request_time), so another
   handler serving the same database may run between the two. *)
create_checks(current_user, request_date, request_time) ==
    IF \E i \in nearby_requests(current_user, request_date) :
          requests[i].request_time = request_time
    THEN Reply(400, "exact date and time")
    ELSE IF \E i \in nearby_requests(current_user, request_date) :
          Abs(request_time - requests[i].request_time) < MinGapMinutes
    THEN Reply(400, "30 minutes gap")
    ELSE Reply(200, "created")

create_begin(p, current_user, request_date, request_time, passenger_count) ==
    /\ pc[p] = "idle"
    /\ IF create_checks(current_user, request_date, request_time).code = 200
       THEN /\ pc' = [pc EXCEPT ![p] = "insert"]
            /\ local' = [local EXCEPT ![p] =
                   [user_id |-> current_user,
                    passenger_count |-> passenger_count,
                    request_date |-> request_date,
                    request_time |-> request_time,
                    status |-> PENDING]]
            /\ UNCHANGED response
       ELSE /\ response' = create_checks(current_user, request_date, request_time)
            /\ UNCHANGED <<pc, local>>
    /\ UNCHANGED db

create_finish(p) ==
    /\ pc[p] = "insert"
    /\ Len(requests) < MaxRequests
    /\ requests' = Append(requests, local[p])
    /\ response' = Reply(200, "created")
    /\ pc' = [pc EXCEPT ![p] = "idle"]
    /\ local' = [local EXCEPT ![p] = <<>>]
    /\ UNCHANGED <<assignments, is_available>>

(* ============ automated_scheduling_service.py: AutomatedScheduler ====== *)
(* A datetime is date * MinutesPerDay + minutes of the day; a date is a day
   number whose weekday() is date % 7 (0 is Monday); a time is minutes of
   the day. *)
MinutesPerDay == 24 * 60

datetime_combine(date, time) == date * MinutesPerDay + time
time_of(dt) == dt % MinutesPerDay
date_of_dt(dt) == dt \div MinutesPerDay
hour_of(dt) == time_of(dt) \div 60
weekday(dt) == date_of_dt(dt) % 7

Priority == [LOW |-> 1, MEDIUM |-> 2, HIGH |-> 3, URGENT |-> 4]

SCHEDULED == "scheduled"
CONFLICT == "conflict"
OPTIMIZED == "optimized"

scheduling_rules ==
    [working_hours |-> [start |-> 6 * 60, end |-> 22 * 60],
     peak_hours |-> <<[start |-> 8 * 60, end |-> 10 * 60],
                      [start |-> 17 * 60, end |-> 20 * 60]>>,
     buffer_time_minutes |-> 15]

(* The weights in hundredths: 0.3, 0.2, 0.15. *)
optimization_weights ==
    [priority |-> 30, user_preference |-> 20, resource_utilization |-> 15]

Min(a, b) == IF a < b THEN a ELSE b
Max(a, b) == IF a > b THEN a ELSE b

_is_within_working_hours(check_time) ==
    /\ scheduling_rules.working_hours.start <= check_time
    /\ check_time <= scheduling_rules.working_hours.end

_is_peak_hour(check_time) ==
    \E i \in DOMAIN scheduling_rules.peak_hours :
        /\ scheduling_rules.peak_hours[i].start <= check_time
        /\ check_time <= scheduling_rules.peak_hours[i].end

(* _calculate_slot_score without the cap min(100, ..). *)
_calculate_slot_score_uncapped(slot_time, request) ==
    Max(0, 50 + request.priority * 10
            - (IF _is_peak_hour(time_of(slot_time)) THEN 20 ELSE 0)
            + (IF 10 <= hour_of(slot_time) /\ hour_of(slot_time) <= 16 THEN 15 ELSE 0)
            + (IF weekday(slot_time) >= 5 THEN 10 ELSE 0))

_calculate_slot_score(slot_time, request) ==
    Min(100, Max(0, 50 + request.priority * 10
            - (IF _is_peak_hour(time_of(slot_time)) THEN 20 ELSE 0)
            + (IF 10 <= hour_of(slot_time) /\ hour_of(slot_time) <= 16 THEN 15 ELSE 0)
            + (IF weekday(slot_time) >= 5 THEN 10 ELSE 0)))

(* Offsets in steps of five minutes. *)
slot_offsets_fine == <<-30, -25, -20, -15, -10, -5, 5, 10, 15, 20, 25, 30, 45, 60>>

(* The offsets the search tries, in the order it tries them (line 181). *)
slot_offsets == <<-30, -15, 15, 30, 45, 60>>

(* sorted(slots, key=score, reverse=True): a stable sort, so slots of equal
   score keep the order they were appended in. *)
RECURSIVE insert_by_score(_, _)
insert_by_score(sorted, slot) ==
    IF sorted = <<>> THEN <<slot>>
    ELSE IF Head(sorted).score >= slot.score
    THEN <<Head(sorted)>> \o insert_by_score(Tail(sorted), slot)
    ELSE <<slot>> \o sorted

RECURSIVE sorted_by_score(_)
sorted_by_score(slots) ==
    IF slots = <<>> THEN <<>>
    ELSE insert_by_score(sorted_by_score(SubSeq(slots, 1, Len(slots) - 1)),
                         slots[Len(slots)])

(* The alternative slots of offsets i .. Len(slot_offsets), in that order. *)
RECURSIVE alternative_slots(_, _)
alternative_slots(request, i) ==
    IF i > Len(slot_offsets) THEN <<>>
    ELSE LET offset == slot_offsets[i]
             alt_time == datetime_combine(request.requested_date, request.requested_time)
                            + offset
             rest == alternative_slots(request, i + 1)
         IN  IF /\ Abs(offset) <= request.flexibility_minutes
                /\ _is_within_working_hours(time_of(alt_time))
             THEN <<[slot_time |-> alt_time,
                     score |-> _calculate_slot_score(alt_time, request),
                     type |-> "alternative"]>> \o rest
             ELSE rest

_find_optimal_time_slots(request) ==
    sorted_by_score(
        <<[slot_time |-> datetime_combine(request.requested_date, request.requested_time),
           score |-> 100,
           type |-> "requested"]>>
        \o alternative_slots(request, 1))

(* The interval a scheduled trip blocks: from its start to its end plus the
   buffer, both ends included. *)
trip_start(trip) == datetime_combine(trip.scheduled_date, trip.scheduled_time)
trip_end(trip) ==
    trip_start(trip) + trip.estimated_duration + scheduling_rules.buffer_time_minutes

_is_vehicle_available(vehicle, slot_time) ==
    /\ \A i \in DOMAIN scheduled_trips :
          scheduled_trips[i].assigned_vehicle_id = vehicle.id =>
              ~(trip_start(scheduled_trips[i]) <= slot_time
                    /\ slot_time <= trip_end(scheduled_trips[i]))
    /\ vehicle.status = "available"

_is_driver_available(driver, slot_time) ==
    /\ \A i \in DOMAIN scheduled_trips :
          scheduled_trips[i].assigned_driver_id = driver.id =>
              ~(trip_start(scheduled_trips[i]) <= slot_time
                    /\ slot_time <= trip_end(scheduled_trips[i]))
    /\ driver.status = "available"

(* The availability dictionary, keyed by slot time. *)
_check_resource_availability(time_slots, vehicles, drivers) ==
    [t \in {time_slots[i].slot_time : i \in DOMAIN time_slots} |->
        LET available_vehicles ==
                SelectSeq(vehicles, LAMBDA v : _is_vehicle_available(v, t))
            available_drivers ==
                SelectSeq(drivers, LAMBDA d : _is_driver_available(d, t))
        IN  [vehicles |-> available_vehicles,
             drivers |-> available_drivers,
             resource_score |-> Len(available_vehicles) * Len(available_drivers)]]

(* max(scored, key=score): the first element with the highest score. *)
RECURSIVE first_max(_, _)
first_max(items, score) ==
    IF Len(items) = 1 THEN items[1]
    ELSE LET best == first_max(SubSeq(items, 1, Len(items) - 1), score)
             last == items[Len(items)]
         IN  IF score[last.id] > score[best.id] THEN last ELSE best

_select_best_vehicle(vehicles, request) ==
    first_max(vehicles,
        [id \in {vehicles[i].id : i \in DOMAIN vehicles} |->
            LET vehicle == CHOOSE v \in {vehicles[i] : i \in DOMAIN vehicles} : v.id = id
            IN  (IF vehicle.capacity >= request.passenger_count THEN 30 ELSE 0)
                + (IF vehicle.fuel_type = "electric" THEN 20
                   ELSE IF vehicle.fuel_type = "hybrid" THEN 15 ELSE 0)
                + vehicle.condition_score])

(* rating is in tenths, and so is the score: rating * 20 + min(total_trips
   / 10, 20) + 10. *)
_select_best_driver(drivers, request) ==
    first_max(drivers,
        [id \in {drivers[i].id : i \in DOMAIN drivers} |->
            LET driver == CHOOSE d \in {drivers[i] : i \in DOMAIN drivers} : d.id = id
            IN  driver.rating * 20 + Min(driver.total_trips, 200) + 100])

(* base_duration is the value random.randint(20, 90) returned. *)
_estimate_trip_duration(request, base_duration) ==
    IF request.passenger_count > 2 THEN base_duration + 10 ELSE base_duration

(* combined_score in hundredths. *)
combined_score(slot, availability, request) ==
    slot.score * optimization_weights.user_preference
    + availability.resource_score * optimization_weights.resource_utilization
    + request.priority * 20 * optimization_weights.priority

(* The loop of lines 314-330 over time_slots[i ..]: best is the index of the
   best slot so far (0 for none) and best_score its combined score. *)
RECURSIVE best_slot_from(_, _, _, _, _, _)
best_slot_from(request, time_slots, resource_availability, i, best, best_score) ==
    IF i > Len(time_slots) THEN [slot |-> best, score |-> best_score]
    ELSE LET slot == time_slots[i]
             availability == resource_availability[slot.slot_time]
             score == combined_score(slot, availability, request)
         IN  IF /\ availability.vehicles # <<>>
                /\ availability.drivers # <<>>
                /\ score > best_score
             THEN best_slot_from(request, time_slots, resource_availability, i + 1, i, score)
             ELSE best_slot_from(request, time_slots, resource_availability, i + 1, best, best_score)

(* The loop with >= in place of >: a later slot of equal score wins. *)
RECURSIVE best_slot_last_wins(_, _, _, _, _, _)
best_slot_last_wins(request, time_slots, resource_availability, i, best, best_score) ==
    IF i > Len(time_slots) THEN [slot |-> best, score |-> best_score]
    ELSE LET slot == time_slots[i]
             availability == resource_availability[slot.slot_time]
             score == combined_score(slot, availability, request)
         IN  IF /\ availability.vehicles # <<>>
                /\ availability.drivers # <<>>
                /\ score >= best_score
             THEN best_slot_last_wins(request, time_slots, resource_availability, i + 1, i, score)
             ELSE best_slot_last_wins(request, time_slots, resource_availability, i + 1, best, best_score)

(* _apply_scheduling_algorithm with the later slot winning a tie. *)
_apply_scheduling_algorithm_last_wins(request, time_slots, resource_availability, base_duration) ==
    LET best == best_slot_last_wins(request, time_slots, resource_availability, 1, 0, 0)
    IN  IF best.slot # 0
        THEN LET best_slot == time_slots[best.slot]
                 best_resources == resource_availability[best_slot.slot_time]
             IN  [request_id |-> request.id,
                  scheduled_date |-> date_of_dt(best_slot.slot_time),
                  scheduled_time |-> time_of(best_slot.slot_time),
                  estimated_duration |-> _estimate_trip_duration(request, base_duration),
                  assigned_vehicle_id |-> _select_best_vehicle(best_resources.vehicles, request).id,
                  assigned_driver_id |-> _select_best_driver(best_resources.drivers, request).id,
                  status |-> SCHEDULED,
                  confidence_score |-> best.score]
        ELSE [request_id |-> request.id,
              scheduled_date |-> request.requested_date,
              scheduled_time |-> request.requested_time,
              estimated_duration |-> _estimate_trip_duration(request, base_duration),
              assigned_vehicle_id |-> None,
              assigned_driver_id |-> None,
              status |-> CONFLICT,
              confidence_score |-> 0]

(* The ScheduledTrip the algorithm returns. confidence_score is in units of
   1/10000 (best_score / 100 with best_score in hundredths). *)
_apply_scheduling_algorithm(request, time_slots, resource_availability, base_duration) ==
    LET best == best_slot_from(request, time_slots, resource_availability, 1, 0, 0)
    IN  IF best.slot # 0
        THEN LET best_slot == time_slots[best.slot]
                 best_resources == resource_availability[best_slot.slot_time]
             IN  [request_id |-> request.id,
                  scheduled_date |-> date_of_dt(best_slot.slot_time),
                  scheduled_time |-> time_of(best_slot.slot_time),
                  estimated_duration |-> _estimate_trip_duration(request, base_duration),
                  assigned_vehicle_id |-> _select_best_vehicle(best_resources.vehicles, request).id,
                  assigned_driver_id |-> _select_best_driver(best_resources.drivers, request).id,
                  status |-> SCHEDULED,
                  confidence_score |-> best.score]
        ELSE [request_id |-> request.id,
              scheduled_date |-> request.requested_date,
              scheduled_time |-> request.requested_time,
              estimated_duration |-> _estimate_trip_duration(request, base_duration),
              assigned_vehicle_id |-> None,
              assigned_driver_id |-> None,
              status |-> CONFLICT,
              confidence_score |-> 0]

(* The request of line 439-441: the same request, 60 minutes more flexible. *)
extended_request(request) ==
    [request EXCEPT !.flexibility_minutes = request.flexibility_minutes + 60]

_resolve_scheduling_conflicts(request, conflicted_trip, vehicles, drivers, base_duration) ==
    LET extended_slots == _find_optimal_time_slots(extended_request(request))
        extended_availability ==
            _check_resource_availability(extended_slots, vehicles, drivers)
        resolved_trip ==
            _apply_scheduling_algorithm(extended_request(request), extended_slots,
                                        extended_availability, base_duration)
    IN  IF resolved_trip.status = SCHEDULED
        THEN [resolved_trip EXCEPT !.status = OPTIMIZED]
        ELSE conflicted_trip

(* One search as result records it: the flexibility searched with and the
   slot list _find_optimal_time_slots returned. *)
search_of(request) ==
    [flexibility_minutes |-> request.flexibility_minutes,
     slots |-> _find_optimal_time_slots(request)]

(* schedule_request (lines 91-129). first_duration and retry_duration are the
   values random.randint returns in the first search and in the conflict
   resolution; the second is drawn only when the first search conflicts. *)
schedule_request(request, available_vehicles, available_drivers, first_duration, retry_duration) ==
    \E first_search \in {search_of(request)} :
    \E resource_availability \in
          {_check_resource_availability(first_search.slots, available_vehicles, available_drivers)} :
    \E first_trip \in
          {_apply_scheduling_algorithm(request, first_search.slots, resource_availability,
                                      first_duration)} :
    \E scheduled_trip \in
          {IF first_trip.status = CONFLICT
           THEN _resolve_scheduling_conflicts(request, first_trip, available_vehicles,
                                              available_drivers, retry_duration)
           ELSE first_trip} :
        /\ first_trip.status # CONFLICT => retry_duration = first_duration
        /\ scheduled_trips' = Append(scheduled_trips, scheduled_trip)
        /\ result' =
              [called |-> TRUE,
               success |-> TRUE,
               scheduled_trip |-> scheduled_trip,
               time_adjustment_minutes |->
                   trip_start(scheduled_trip)
                     - datetime_combine(request.requested_date, request.requested_time),
               request |-> request,
               available_vehicles |-> available_vehicles,
               available_drivers |-> available_drivers,
               searches |->
                   IF first_trip.status = CONFLICT
                   THEN <<first_search, search_of(extended_request(request))>>
                   ELSE <<first_search>>]
        /\ UNCHANGED routes

(* _find_optimal_time_slots called on its own. *)
find_optimal_time_slots(request) ==
    /\ result' = [called |-> TRUE,
                  request |-> request,
                  searches |-> <<search_of(request)>>]
    /\ UNCHANGED <<scheduled_trips, routes>>

(* ---------------- schedule_multiple_requests (lines 131-165) ----------- *)
(* The sort key of line 137, (priority.value, requested_time), compared as
   Python compares tuples. *)
sort_key_le(r1, r2) ==
    \/ r1.priority < r2.priority
    \/ /\ r1.priority = r2.priority
       /\ r1.requested_time <= r2.requested_time

RECURSIVE insert_by_key(_, _)
insert_by_key(sorted_requests, request) ==
    IF sorted_requests = <<>>
    THEN <<request>>
    ELSE IF sort_key_le(Head(sorted_requests), request)
    THEN <<Head(sorted_requests)>> \o insert_by_key(Tail(sorted_requests), request)
    ELSE <<request>> \o sorted_requests

(* sorted(requests, key = ..): ascending in the key and stable. *)
RECURSIVE sorted_by_key(_)
sorted_by_key(batch_requests) ==
    IF batch_requests = <<>>
    THEN <<>>
    ELSE insert_by_key(sorted_by_key(SubSeq(batch_requests, 1, Len(batch_requests) - 1)),
                       batch_requests[Len(batch_requests)])

(* Line 146 compares result['scheduled_trip']['status'] with
   SchedulingStatus.CONFLICT.value. asdict leaves status the member of the
   plain Enum SchedulingStatus, and a member never equals its value, the
   string, whichever member it is. *)
status_equals_conflict_value(status) == FALSE

TypeError == "TypeError"

(* _can_optimize_together (lines 484-496) hands trip['scheduled_time'], a
   datetime.time that asdict left as it was, to datetime.strptime, which
   raises TypeError for every argument that is not a str; the comparison
   time_diff <= 30 of line 496 is never reached. *)
_can_optimize_together(result1, result2) == TypeError

(* _global_optimization_pass (lines 458-482): the suggestions for the pairs
   i < j the test accepts, or the exception the first test raises. *)
_global_optimization_pass(scheduled_results) ==
    IF \E i, j \in DOMAIN scheduled_results :
          /\ i < j
          /\ _can_optimize_together(scheduled_results[i], scheduled_results[j]) = TypeError
    THEN TypeError
    ELSE <<>>

(* The call as the steps of one coroutine that nothing else interleaves
   with: the sort (line 137), one turn of the loop per request (lines
   143-149), then the optimization pass and the return (lines 151-165). *)
batch_begin(batch_requests, available_vehicles, available_drivers) ==
    /\ batch.pc = "idle"
    /\ batch' = [pc |-> "loop",
                 requests |-> batch_requests,
                 available_vehicles |-> available_vehicles,
                 available_drivers |-> available_drivers,
                 sorted_requests |-> sorted_by_key(batch_requests),
                 processed |-> <<>>,
                 scheduled_results |-> <<>>,
                 conflicts |-> <<>>]
    /\ UNCHANGED <<scheduled_trips, result, routes>>

batch_loop(first_duration, retry_duration) ==
    /\ batch.pc = "loop"
    /\ Len(batch.processed) < Len(batch.sorted_requests)
    /\ schedule_request(batch.sorted_requests[Len(batch.processed) + 1],
                        batch.available_vehicles, batch.available_drivers,
                        first_duration, retry_duration)
    /\ batch' = [batch EXCEPT
                   !.processed = Append(@, batch.sorted_requests[Len(batch.processed) + 1]),
                   !.scheduled_results =
                       IF status_equals_conflict_value(result'.scheduled_trip.status)
                       THEN @
                       ELSE Append(@, result'),
                   !.conflicts =
                       IF status_equals_conflict_value(result'.scheduled_trip.status)
                       THEN Append(@, result')
                       ELSE @]

batch_return ==
    /\ batch.pc = "loop"
    /\ Len(batch.processed) = Len(batch.sorted_requests)
    /\ IF /\ Len(batch.scheduled_results) > 1
          /\ _global_optimization_pass(batch.scheduled_results) = TypeError
       THEN batch' = [batch EXCEPT !.pc = "raised"]
       ELSE batch' = [pc |-> "returned",
                      requests |-> batch.requests,
                      available_vehicles |-> batch.available_vehicles,
                      available_drivers |-> batch.available_drivers,
                      sorted_requests |-> batch.sorted_requests,
                      processed |-> batch.processed,
                      scheduled_results |-> batch.scheduled_results,
                      conflicts |-> batch.conflicts,
                      returned |->
                         [success |-> TRUE,
                          total_requests |-> Len(batch.requests),
                          successfully_scheduled |-> Len(batch.scheduled_results),
                          conflicts |-> Len(batch.conflicts),
                          scheduled_trips |-> batch.scheduled_results,
                          conflict_details |-> batch.conflicts,
                          optimizations_applied |->
                             IF Len(batch.scheduled_results) > 1
                             THEN _global_optimization_pass(batch.scheduled_results)
                             ELSE <<>>]]
    /\ UNCHANGED <<scheduled_trips, result, routes>>

(* ------------------------- specification ------------------------------- *)
Next ==
    \/ \E u \in Users, dt \in Dates, t \in RequestTimes, n \in PassengerCounts :
          create_request(u, dt, t, n) /\ UNCHANGED sched
    \/ \E r \in 1..MaxRequests, v \in Vehicles, d \in Drivers, p \in Proposals :
          approve_request_with_assignment(r, v, d, p[1], p[2]) /\ UNCHANGED sched
    \/ \E r \in 1..MaxRequests : reject_request_with_reason(r) /\ UNCHANGED sched
    \/ \E r \in 1..MaxRequests : reject_request_unified(r) /\ UNCHANGED sched
    \/ \E r \in 1..MaxRequests : approve_request_unified(r) /\ UNCHANGED sched
    \/ \E r \in 1..MaxRequests : cancel_request_unified(r) /\ UNCHANGED sched
    \/ \E r \in 1..MaxRequests, u \in Users : cancel_request(r, u) /\ UNCHANGED sched
    \/ \E r \in 1..MaxRequests, u \in Users, n \in PassengerCounts : update_request(r, u, n) /\ UNCHANGED sched
    \/ \E a \in 1..MaxRequests, d \in Drivers : start_trip(a, d) /\ UNCHANGED sched
    \/ \E a \in 1..MaxRequests, d \in Drivers : complete_trip(a, d) /\ UNCHANGED sched
    \/ \E ids \in SUBSET (1..MaxRequests), v \in Vehicles \cup {None}, d \in Drivers \cup {None} :
          bulk_request_action(ids, "approve", v, d) /\ UNCHANGED sched
    \/ \E ids \in SUBSET (1..MaxRequests), act \in {"reject", "cancel"} :
          bulk_request_action(ids, act, None, None) /\ UNCHANGED sched

Spec == Init /\ [][Next]_vars

(* Approval handlers that interleave: each of NumProcs handlers runs
   approve_request_with_assignment once, as its two steps. *)
NextConc ==
    \/ \E u \in Users, dt \in Dates, t \in RequestTimes, n \in PassengerCounts :
          create_request(u, dt, t, n) /\ UNCHANGED sched
    \/ \E p \in Procs, r \in 1..MaxRequests, v \in Vehicles, d \in Drivers, pr \in Proposals :
          approve_begin(p, r, v, d, pr[1], pr[2]) /\ UNCHANGED sched
    \/ \E p \in Procs : approve_finish(p) /\ UNCHANGED sched

SpecConc == Init /\ [][NextConc]_vars

(* Create handlers of the same database that interleave, and the user's own
   cancellations between them. *)
NextCreate ==
    \/ \E p \in Procs, u \in Users, dt \in Dates, t \in RequestTimes, n \in PassengerCounts :
          create_begin(p, u, dt, t, n) /\ UNCHANGED sched
    \/ \E p \in Procs : create_finish(p) /\ UNCHANGED sched
    \/ \E r \in 1..MaxRequests, u \in Users : cancel_request(r, u) /\ UNCHANGED sched

SpecCreate == Init /\ [][NextCreate]_vars

(* The admin approving with any vehicle of the table and setting drivers'
   availability by hand. *)
NextFleet ==
    \/ \E u \in Users, dt \in Dates, t \in RequestTimes, n \in PassengerCounts :
          create_request(u, dt, t, n) /\ UNCHANGED sched
    \/ \E r \in 1..MaxRequests, v \in FleetVehicles, d \in Drivers, p \in Proposals :
          approve_reporting_conflict(r, v, d, p[1], p[2]) /\ UNCHANGED sched
    \/ \E d \in Drivers, available \in BOOLEAN :
          update_driver_availability(d, available) /\ UNCHANGED sched

SpecFleet == Init /\ [][NextFleet]_vars

(* ---------------- the scheduler's inputs and specifications ------------ *)
(* Day 4 is a Friday and day 5 a Saturday. *)
SchedDates == {4, 5}
DayTimes == {t \in 0..(MinutesPerDay - 1) : t % 15 = 0}
Priorities == {Priority.LOW, Priority.MEDIUM, Priority.HIGH, Priority.URGENT}
Flexibilities == {5 * k : k \in 0..MaxFlexIdx}
PartySizes == {2, 3}

(* The requests _find_optimal_time_slots is applied to. *)
SlotRequests ==
    [id : {1},
     requested_date : SchedDates,
     requested_time : DayTimes,
     passenger_count : PartySizes,
     priority : Priorities,
     flexibility_minutes : Flexibilities]

(* The vehicles and drivers callers hand to schedule_request. *)
vehicle_catalog ==
    <<[id |-> 1, status |-> "available", capacity |-> 2,
       fuel_type |-> "electric", condition_score |-> 80],
      [id |-> 2, status |-> "available", capacity |-> 4,
       fuel_type |-> "petrol", condition_score |-> 80]>>

driver_catalog ==
    <<[id |-> 1, status |-> "available", rating |-> 48, total_trips |-> 245],
      [id |-> 2, status |-> "on_leave", rating |-> 49, total_trips |-> 312]>>

(* The candidate lists: no vehicle, the small one, or both; no driver or
   one driver. *)
VehiclePools == {SubSeq(vehicle_catalog, 1, n) : n \in 0..Len(vehicle_catalog)}
DriverPools == {<<>>} \cup {<<driver_catalog[i]>> : i \in DOMAIN driver_catalog}

(* Values random.randint(20, 90) may return. *)
BaseDurations == {20, 90}

SchedTimes == {9 * 60, 11 * 60}
SchedPriorities == {Priority.URGENT}
SchedFlexibilities == {0, 30}

(* The requests schedule_request is called with; the id is the call's number. *)
SchedRequests(id) ==
    [id : {id},
     requested_date : SchedDates,
     requested_time : SchedTimes,
     passenger_count : PartySizes,
     priority : SchedPriorities,
     flexibility_minutes : SchedFlexibilities]

(* The batches schedule_multiple_requests is called with: up to MaxBatch
   requests for one Friday, each with its route. *)
BatchPriorities == {Priority.LOW, Priority.URGENT}
Places == {"Main Gate", "Hangar 3"}

BatchRequestAt(id) ==
    [id : {id},
     requested_date : {4},
     requested_time : SchedTimes,
     passenger_count : {2},
     priority : BatchPriorities,
     flexibility_minutes : {30},
     origin : Places,
     destination : Places]

Batches ==
    UNION {{b \in [1..n -> UNION {BatchRequestAt(i) : i \in 1..n}] :
               \A i \in 1..n : b[i].id = i} : n \in 0..MaxBatch}

NextBatch ==
    \/ \E batch_requests \in Batches, available_drivers \in DriverPools :
          batch_begin(batch_requests, vehicle_catalog, available_drivers)
    \/ \E first_duration \in BaseDurations, retry_duration \in BaseDurations :
          batch_loop(first_duration, retry_duration)
    \/ batch_return

SpecBatch == Init /\ [][NextBatch]_vars

NextSched ==
    /\ Len(scheduled_trips) < MaxTrips
    /\ \E request \in SchedRequests(Len(scheduled_trips) + 1),
       available_vehicles \in VehiclePools, available_drivers \in DriverPools,
       first_duration \in BaseDurations, retry_duration \in BaseDurations :
          /\ schedule_request(request, available_vehicles, available_drivers,
                              first_duration, retry_duration)
          /\ UNCHANGED batch

SpecSched == Init /\ [][NextSched]_vars

NextSlots ==
    /\ ~result.called
    /\ \E request \in SlotRequests :
          find_optimal_time_slots(request) /\ UNCHANGED batch

SpecSlots == Init /\ [][NextSlots]_vars

(* ============================ properties =============================== *)
Terminal == {COMPLETED, CANCELLED, REJECTED}

Active(a) == assignments[a].status \in {ASSIGNED, IN_PROGRESS}

active_rows_of(request_id) == {a \in rows_of(request_id) : Active(a)}

date_of(a) == requests[assignments[a].request_id].request_date

(* Half-open overlap of [s1, e1) and [s2, e2). *)
Overlaps(s1, e1, s2, e2) == s1 < e2 /\ s2 < e1

(* Row a has an interval and it overlaps [dep, arr). *)
RowOverlaps(a, dep, arr) ==
    /\ assignments[a].estimated_arrival # NULL
    /\ Overlaps(assignments[a].estimated_departure, assignments[a].estimated_arrival, dep, arr)

(* C1: no two active assignments that share a vehicle or a driver on the same
   date have overlapping [estimated_departure, estimated_arrival) intervals. *)
C1_NoOverlap ==
    \A a, b \in AssignmentIds :
        (/\ a # b
         /\ Active(a) /\ Active(b)
         /\ \/ assignments[a].vehicle_id = assignments[b].vehicle_id
            \/ assignments[a].driver_id = assignments[b].driver_id
         /\ date_of(a) = date_of(b)
         /\ assignments[b].estimated_arrival # NULL)
        => ~RowOverlaps(a, assignments[b].estimated_departure, assignments[b].estimated_arrival)

(* C2: of two approve-with-assignment handlers for different requests whose
   read and commit steps interleave (neither conflict query saw the other's
   row) and that propose the same vehicle or driver for overlapping intervals
   on one date, at most one commits. *)
C2_AtMostOneCommits ==
    \A p, q \in Procs :
        ~(/\ p # q
          /\ pc[p] = "done" /\ pc[q] = "done"
          /\ local[p].row > local[q].seen /\ local[q].row > local[p].seen
          /\ local[p].request_id # local[q].request_id
          /\ requests[local[p].request_id].request_date
                = requests[local[q].request_id].request_date
          /\ \/ local[p].vehicle_id = local[q].vehicle_id
             \/ local[p].driver_id = local[q].driver_id
          /\ Overlaps(local[p].estimated_departure, local[p].estimated_arrival,
                      local[q].estimated_departure, local[q].estimated_arrival))

(* C3: the conflict query matches whenever an active same-date assignment on
   the proposed vehicle or driver overlaps the proposed interval. *)
C3_ConflictCheckComplete ==
    \A r \in RequestIds, v \in Vehicles, d \in Drivers, p \in Proposals :
        (/\ requests[r].status = PENDING
         /\ \E a \in AssignmentIds :
               /\ Active(a)
               /\ assignments[a].vehicle_id = v \/ assignments[a].driver_id = d
               /\ date_of(a) = requests[r].request_date
               /\ RowOverlaps(a, p[1], p[2]))
        => conflict_check(r, v, d, p[1], p[2]) # {}

(* C4: an active assignment whose interval only touches the proposed one
   (one ends exactly when the other starts) is not matched by the conflict
   query. *)
C4_TouchingIsFree ==
    \A r \in RequestIds, v \in Vehicles, d \in Drivers, p \in Proposals :
        \A a \in AssignmentIds :
            (/\ requests[r].status = PENDING
             /\ Active(a)
             /\ \/ assignments[a].estimated_arrival = p[1]
                \/ assignments[a].estimated_departure = p[2])
            => a \notin conflict_check(r, v, d, p[1], p[2])

(* C5: approving a request that is not pending fails and changes nothing.
   approve-with-assignment and the unified approve answer 400 and leave the
   tables as they were; a bulk approve leaves every non-pending request of
   its list and that request's assignments as they were, and leaves all
   tables as they were when no request of its list is pending. *)
C5_ApproveNonPendingNoChange ==
    [][\A r \in RequestIds :
          requests[r].status # PENDING =>
            /\ \/ (response'.code = 400 /\ UNCHANGED db)
               \/ /\ \A v \in Vehicles, d \in Drivers, p \in Proposals :
                        ~approve_request_with_assignment(r, v, d, p[1], p[2])
                  /\ ~approve_request_unified(r)
            /\ \/ UNCHANGED db
               \/ \A ids \in {s \in SUBSET RequestIds : r \in s} :
                     \/ /\ requests'[r] = requests[r]
                        /\ {a \in DOMAIN assignments' : assignments'[a].request_id = r}
                              = rows_of(r)
                        /\ \E i \in ids : requests[i].status = PENDING
                     \/ \A v \in Vehicles \cup {None}, d \in Drivers \cup {None} :
                           ~bulk_request_action(ids, "approve", v, d)
      ]_vars

(* Every request is rejected and the last call was refused with 400: with no
   pending or cancellable-with-400 request and no assignment, the refused call
   acted on a rejected request. *)
C5_Witness ==
    /\ Len(requests) = MaxRequests
    /\ \A r \in RequestIds : requests[r].status = REJECTED
    /\ response.code = 400

(* C6 as stated: every change of a request's status is one of the edges
   pending->approved, pending->rejected, approved->in_progress,
   approved->cancelled, in_progress->completed. *)
DocumentedEdges ==
    {<<PENDING, APPROVED>>, <<PENDING, REJECTED>>, <<APPROVED, IN_PROGRESS>>,
     <<APPROVED, CANCELLED>>, <<IN_PROGRESS, COMPLETED>>}

C6_OnlyDocumentedEdges ==
    [][\A r \in RequestIds :
          requests'[r].status # requests[r].status
             => <<requests[r].status, requests'[r].status>> \in DocumentedEdges]_vars

(* C6 amended: every change of a request's status is one of pending->approved,
   pending->rejected, pending->cancelled, approved->cancelled,
   rejected->cancelled, approved->completed; a request becomes completed only
   from approved and only when an assignment of it is in_progress, which that
   step completes. *)
CodeEdges ==
    {<<PENDING, APPROVED>>, <<PENDING, REJECTED>>, <<PENDING, CANCELLED>>,
     <<APPROVED, CANCELLED>>, <<REJECTED, CANCELLED>>, <<APPROVED, COMPLETED>>}

C6_OnlyCodeEdges ==
    [][\A r \in RequestIds :
          requests'[r].status # requests[r].status
             => /\ <<requests[r].status, requests'[r].status>> \in CodeEdges
                /\ requests'[r].status = COMPLETED
                      => \E a \in rows_of(r) :
                            /\ assignments[a].status = IN_PROGRESS
                            /\ assignments'[a].status = COMPLETED]_vars

(* A request completed by complete_trip. *)
C6_Witness ==
    \E r \in RequestIds :
        /\ requests[r].status = COMPLETED
        /\ \E a \in rows_of(r) : assignments[a].status = COMPLETED
        /\ response.code = 200

(* C7: once a request is completed, cancelled or rejected, no operation
   changes its status or its fields. *)
C7_TerminalImmutable ==
    [][\A r \in RequestIds :
          requests[r].status \in Terminal => requests'[r] = requests[r]]_vars

(* C8: each request has at most one assignment in status assigned or
   in_progress. *)
C8_OneActiveAssignment ==
    \A r \in RequestIds : Cardinality(active_rows_of(r)) <= 1

(* An approved request holds its one active assignment and the last call, a
   further change attempted on the tables, was refused. *)
C8_Witness ==
    /\ \E r \in RequestIds :
          /\ requests[r].status = APPROVED
          /\ Cardinality(active_rows_of(r)) = 1
    /\ \A r \in RequestIds : requests[r].status = APPROVED
    /\ Len(requests) = MaxRequests
    /\ response.code = 400

(* C9: every step that takes a request from pending to approved adds an
   assignment for it and leaves that assignment's driver with
   is_available = FALSE. *)
C9_ApprovalCommitsAssignment ==
    [][\A r \in RequestIds :
          (requests[r].status = PENDING /\ requests'[r].status = APPROVED)
             => \E a \in (DOMAIN assignments') \ AssignmentIds :
                   /\ assignments'[a].request_id = r
                   /\ is_available'[assignments'[a].driver_id] = FALSE]_vars

(* C10: every step that cancels a request that has an assignment sets that
   assignment to cancelled and its driver's is_available to TRUE. *)
C10_CancelReleasesDriver ==
    [][\A r \in RequestIds :
          (requests[r].status # CANCELLED /\ requests'[r].status = CANCELLED)
             => \A a \in rows_of(r) :
                   /\ assignments'[a].status = CANCELLED
                   /\ is_available'[assignments[a].driver_id] = TRUE]_vars

(* C11: complete_trip succeeds only on an assignment in status in_progress
   that belongs to the calling driver; on success the assignment and its
   request become completed and the driver's is_available becomes true, and
   nothing else changes; in every other case it fails with 400 or 404 and
   changes nothing. *)
C11_CompleteTrip ==
    [][\A a \in 1..MaxRequests, d \in Drivers :
          complete_trip(a, d) =>
            IF /\ a \in AssignmentIds
               /\ assignments[a].driver_id = d
               /\ assignments[a].status = IN_PROGRESS
            THEN /\ response'.code = 200
                 /\ assignments' = [assignments EXCEPT ![a].status = COMPLETED]
                 /\ requests' = [requests EXCEPT
                                    ![assignments[a].request_id].status = COMPLETED]
                 /\ is_available' = [is_available EXCEPT ![d] = TRUE]
            ELSE /\ response'.code \in {400, 404}
                 /\ UNCHANGED db
      ]_vars

(* A trip was completed: its assignment and request are completed and the
   driver, flagged unavailable since the approval, is available again. *)
C11_Witness ==
    \E a \in AssignmentIds :
        /\ assignments[a].status = COMPLETED
        /\ requests[assignments[a].request_id].status = COMPLETED
        /\ is_available[assignments[a].driver_id]
        /\ response.code = 200

(* The active assignments of driver d on the date of request r. *)
driver_rows_on(d, r) ==
    {a \in AssignmentIds :
        /\ assignments[a].driver_id = d
        /\ Active(a)
        /\ date_of(a) = requests[r].request_date}

(* The active assignments of vehicle v on the date of request r. *)
vehicle_rows_on(v, r) ==
    {a \in AssignmentIds :
        /\ assignments[a].vehicle_id = v
        /\ Active(a)
        /\ date_of(a) = requests[r].request_date}

(* C12: for a pending request and a vehicle with no active assignment on its
   date, the approval accepts a driver by the overlap check alone: a driver
   with no active assignment on that date is accepted whatever is_available
   says, and a driver with an overlapping active assignment is refused
   whatever is_available says. *)
C12_OverlapDecides ==
    \A r \in RequestIds, v \in Vehicles, d \in Drivers, p \in Proposals :
        (requests[r].status = PENDING /\ vehicle_rows_on(v, r) = {}) =>
            /\ driver_rows_on(d, r) = {}
                  => approve_checks(r, v, d, p[1], p[2]).code = 200
            /\ (\E a \in driver_rows_on(d, r) : RowOverlaps(a, p[1], p[2]))
                  => approve_checks(r, v, d, p[1], p[2]).code # 200

(* ------------------------- AutomatedScheduler -------------------------- *)
Placed == {SCHEDULED, OPTIMIZED}

(* The datetime a search was made around. *)
base_time_of(request) == datetime_combine(request.requested_date, request.requested_time)

(* C13: schedule_request searches once with the request's flexibility and,
   only when that search finds nothing feasible, once more with 60 minutes
   added; when the widened search is infeasible too it makes no further
   search and reports a failure, not a success. *)
C13_WidenOnceThenFail ==
    result.called =>
        LET s == result.searches
            f == result.request.flexibility_minutes
        IN  /\ Len(s) \in {1, 2}
            /\ s[1].flexibility_minutes = f
            /\ Len(s) = 2 => s[2].flexibility_minutes = f + 60
            /\ Len(s) = 1 <=> result.scheduled_trip.status = SCHEDULED
            /\ result.scheduled_trip.status \notin Placed => ~result.success

(* C14: with an empty candidate vehicle list or an empty candidate driver
   list schedule_request fails at once: it generates no slot list, makes no
   widened search and reports a failure. *)
C14_EmptyPoolFailsFast ==
    (/\ result.called
     /\ \/ result.available_vehicles = <<>>
        \/ result.available_drivers = <<>>)
        => /\ result.searches = <<>>
           /\ ~result.success

(* C15: two trips the scheduler placed on the same vehicle, or with the same
   driver, never have overlapping intervals [start, start + duration). *)
C15_SecondTripDisjoint ==
    \A i, j \in DOMAIN scheduled_trips :
        (/\ i < j
         /\ scheduled_trips[i].status \in Placed
         /\ scheduled_trips[j].status \in Placed
         /\ \/ scheduled_trips[i].assigned_vehicle_id = scheduled_trips[j].assigned_vehicle_id
            \/ scheduled_trips[i].assigned_driver_id = scheduled_trips[j].assigned_driver_id)
        => ~Overlaps(trip_start(scheduled_trips[i]),
                     trip_start(scheduled_trips[i]) + scheduled_trips[i].estimated_duration,
                     trip_start(scheduled_trips[j]),
                     trip_start(scheduled_trips[j]) + scheduled_trips[j].estimated_duration)

(* C16: the first slot of every list _find_optimal_time_slots returns is the
   requested time, also when an alternative slot has the same score, and the
   scores along the list never increase. *)
C16_RequestedFirst ==
    result.called =>
        \A k \in DOMAIN result.searches :
            LET slots == result.searches[k].slots
            IN  /\ slots[1].type = "requested"
                /\ slots[1].slot_time = base_time_of(result.request)
                /\ \A i \in 1..(Len(slots) - 1) : slots[i].score >= slots[i + 1].score

(* An alternative slot scores as much as the requested one, which is first. *)
C16_Witness ==
    /\ result.called
    /\ \E k \in DOMAIN result.searches :
          LET slots == result.searches[k].slots
          IN  /\ slots[1].type = "requested"
              /\ \E i \in 2..Len(slots) :
                    /\ slots[i].type = "alternative"
                    /\ slots[i].score = slots[1].score

(* C17: a search with flexibility_minutes >= 0 returns at most
   1 + 2 * floor(flexibility_minutes / 15) slots. *)
C17_SlotCountBound ==
    result.called =>
        \A k \in DOMAIN result.searches :
            result.searches[k].flexibility_minutes >= 0 =>
                Len(result.searches[k].slots)
                    <= 1 + 2 * (result.searches[k].flexibility_minutes \div 15)

(* A search with a flexibility that is not a multiple of 15 reaches the bound
   with alternatives on both sides. *)
C17_Witness ==
    /\ result.called
    /\ \E k \in DOMAIN result.searches :
          /\ result.searches[k].flexibility_minutes % 15 # 0
          /\ Len(result.searches[k].slots) > 1
          /\ Len(result.searches[k].slots)
                = 1 + 2 * (result.searches[k].flexibility_minutes \div 15)

(* C18: for every multiple k of 15 with 0 < k <= flexibility_minutes, the
   slots requested + k and requested - k are among the alternatives when
   their time of day is within working hours; and every alternative is within
   working hours and at most flexibility_minutes from the requested time. *)
C18_AlternativesCoverWindow ==
    result.called =>
        \A n \in DOMAIN result.searches :
            LET slots == result.searches[n].slots
                flex == result.searches[n].flexibility_minutes
                base == base_time_of(result.request)
                alternatives ==
                    {slots[i].slot_time : i \in {j \in DOMAIN slots : slots[j].type = "alternative"}}
            IN  /\ \A k \in 1..flex :
                      k % 15 = 0 =>
                        /\ _is_within_working_hours(time_of(base + k))
                              => base + k \in alternatives
                        /\ _is_within_working_hours(time_of(base - k))
                              => base - k \in alternatives
                /\ \A t \in alternatives :
                      /\ _is_within_working_hours(time_of(t))
                      /\ Abs(t - base) <= flex

(* C19: when the candidate lists are not empty and every candidate vehicle
   and driver is free at every slot of the search, schedule_request places
   the trip at exactly the requested date and time, and the vehicle, the
   driver and the confidence score are the values the selection and scoring
   formulas give for the request and the lists, whatever the random duration
   was: two runs from the same state agree on them. *)
C19_FreeMeansRequestedTime ==
    [][scheduled_trips' # scheduled_trips =>
          LET request == result'.request
              vehicles == result'.available_vehicles
              drivers == result'.available_drivers
              slots == _find_optimal_time_slots(request)
              trip == result'.scheduled_trip
          IN  (/\ vehicles # <<>>
               /\ drivers # <<>>
               /\ \A i \in DOMAIN slots :
                     /\ \A v \in DOMAIN vehicles :
                           _is_vehicle_available(vehicles[v], slots[i].slot_time)
                     /\ \A d \in DOMAIN drivers :
                           _is_driver_available(drivers[d], slots[i].slot_time))
              => /\ trip.status = SCHEDULED
                 /\ trip.scheduled_date = request.requested_date
                 /\ trip.scheduled_time = request.requested_time
                 /\ trip.assigned_vehicle_id = _select_best_vehicle(vehicles, request).id
                 /\ trip.assigned_driver_id = _select_best_driver(drivers, request).id
                 /\ trip.confidence_score =
                       100 * optimization_weights.user_preference
                       + Len(vehicles) * Len(drivers) * optimization_weights.resource_utilization
                       + request.priority * 20 * optimization_weights.priority
      ]_vars

(* The first call of a scheduler, flexibility 30, over lists whose members
   are all available: the trip is at the requested time. *)
C19_Witness ==
    /\ Len(scheduled_trips) = 1
    /\ result.called
    /\ result.request.flexibility_minutes = 30
    /\ result.available_vehicles # <<>>
    /\ result.available_drivers # <<>>
    /\ \A v \in DOMAIN result.available_vehicles :
          result.available_vehicles[v].status = "available"
    /\ \A d \in DOMAIN result.available_drivers :
          result.available_drivers[d].status = "available"
    /\ result.scheduled_trip.status = SCHEDULED
    /\ result.scheduled_trip.scheduled_time = result.request.requested_time

(* C20: the vehicle of every trip schedule_request returns as placed has a
   capacity of at least the request's passenger_count. *)
C20_VehicleFitsParty ==
    (result.called /\ result.scheduled_trip.status \in Placed) =>
        \A v \in DOMAIN vehicle_catalog :
            vehicle_catalog[v].id = result.scheduled_trip.assigned_vehicle_id
                => vehicle_catalog[v].capacity >= result.request.passenger_count

(* ------------------------- cancellation and consistency ---------------- *)
(* C26: cancel_request_unified on a request that is neither completed nor
   cancelled, a pending one included, succeeds and leaves the request
   cancelled; on a completed or cancelled request it fails with 400 and the
   tables are unchanged. *)
C26_AdminCancel ==
    [][\A r \in RequestIds :
          cancel_request_unified(r) =>
            IF requests[r].status \in {COMPLETED, CANCELLED}
            THEN response'.code = 400 /\ UNCHANGED db
            ELSE response'.code = 200 /\ requests'[r].status = CANCELLED
      ]_vars

(* A request that never had an assignment, so was cancelled from pending or
   rejected, is cancelled and the admin's call succeeded. *)
C26_Witness ==
    /\ \E r \in RequestIds :
          /\ requests[r].status = CANCELLED
          /\ rows_of(r) = {}
    /\ assignments = <<>>
    /\ response.code = 200

(* C27: a driver bound to an assignment in status assigned or in_progress has
   is_available = FALSE. *)
C27_BoundDriverUnavailable ==
    \A a \in AssignmentIds :
        Active(a) => is_available[assignments[a].driver_id] = FALSE

(* C28: a request with an active assignment is approved, the request of a
   completed assignment is completed, and a cancelled, rejected or completed
   request has no active assignment. *)
C28_StatusConsistency ==
    \A a \in AssignmentIds :
        /\ Active(a) => requests[assignments[a].request_id].status = APPROVED
        /\ assignments[a].status = COMPLETED =>
              requests[assignments[a].request_id].status = COMPLETED

(* One request is approved and holds an active assignment while another was
   cancelled together with the assignment it had. *)
C28_Witness ==
    /\ \E a \in AssignmentIds :
          Active(a) /\ requests[assignments[a].request_id].status = APPROVED
    /\ \E r \in RequestIds :
          /\ requests[r].status = CANCELLED
          /\ rows_of(r) # {}
          /\ active_rows_of(r) = {}

(* C25: any two pending or approved requests of one user on one date lie at
   least 30 minutes apart. *)
C25_MinGapPerUser ==
    \A i, j \in RequestIds :
        (/\ i # j
         /\ requests[i].user_id = requests[j].user_id
         /\ requests[i].request_date = requests[j].request_date
         /\ requests[i].status \in {PENDING, APPROVED}
         /\ requests[j].status \in {PENDING, APPROVED})
            => Abs(requests[i].request_time - requests[j].request_time) >= MinGapMinutes

(* ------------------------- the conflict error -------------------------- *)
(* C21: an approval refused for a conflict leaves the request pending, adds
   no assignment and changes no driver's is_available; its error carries the
   interval of an assignment the conflict query matched and a conflicted
   resource. *)
C21_ConflictRefusal ==
    [][\A r \in RequestIds, v \in FleetVehicles, d \in Drivers :
        lookups_pass(r, v, d) => \A p \in Proposals :
          (/\ conflict_check(r, v, d, p[1], p[2]) # {}
           /\ approve_reporting_conflict(r, v, d, p[1], p[2]))
             => /\ requests' = requests
                /\ requests'[r].status = PENDING
                /\ assignments' = assignments
                /\ is_available' = is_available
                /\ response'.code = 400
                /\ response'.conflicted_resource
                      \in {"vehicle", "driver", "both vehicle and driver"}
                /\ \E a \in conflict_check(r, v, d, p[1], p[2]) :
                      response'.conflict_time =
                          <<assignments[a].estimated_departure,
                            assignments[a].estimated_arrival>>
      ]_vars

(* An approval was just refused for a conflict while a request is pending
   and a driver holds an active assignment. *)
C21_Witness ==
    /\ response.code = 400
    /\ "conflict_time" \in DOMAIN response
    /\ \E r \in RequestIds : requests[r].status = PENDING
    /\ \E a \in AssignmentIds :
          /\ Active(a)
          /\ response.conflict_time = <<assignments[a].estimated_departure,
                                        assignments[a].estimated_arrival>>

(* C22: the conflicted resource of a refused approval is "vehicle" when the
   row found shares only the vehicle id with the proposal, "driver" when it
   shares only the driver id, and "both vehicle and driver" exactly when
   that one row shares both ids. *)
C22_ConflictedResource ==
    [][\A r \in RequestIds, v \in FleetVehicles, d \in Drivers :
        lookups_pass(r, v, d) => \A p \in Proposals :
          (/\ conflict_check(r, v, d, p[1], p[2]) # {}
           /\ approve_reporting_conflict(r, v, d, p[1], p[2]))
             => \E a \in conflict_check(r, v, d, p[1], p[2]) :
                   /\ response'.conflict_time =
                          <<assignments[a].estimated_departure,
                            assignments[a].estimated_arrival>>
                   /\ response'.conflicted_resource = "vehicle"
                         <=> (/\ assignments[a].vehicle_id = v
                              /\ assignments[a].driver_id # d)
                   /\ response'.conflicted_resource = "driver"
                         <=> (/\ assignments[a].vehicle_id # v
                              /\ assignments[a].driver_id = d)
                   /\ response'.conflicted_resource = "both vehicle and driver"
                         <=> (/\ assignments[a].vehicle_id = v
                              /\ assignments[a].driver_id = d)
      ]_vars

(* A refusal reported both resources: the driver of the one active
   assignment had been flagged available again by hand. *)
C22_Witness ==
    /\ response.code = 400
    /\ "conflicted_resource" \in DOMAIN response
    /\ response.conflicted_resource = "both vehicle and driver"
    /\ \E a \in AssignmentIds : Active(a) /\ is_available[assignments[a].driver_id]

(* C29: every assignment an approval committed has an estimated_arrival and
   its estimated_departure lies strictly before it. *)
C29_WellFormedInterval ==
    \A a \in AssignmentIds :
        /\ assignments[a].estimated_arrival # NULL
        /\ assignments[a].estimated_departure < assignments[a].estimated_arrival

(* ------------------------- schedule_multiple_requests ------------------ *)
(* The suggestions the finished call handed back: none when it raised. *)
suggested_pairs ==
    IF batch.pc = "returned"
    THEN {batch.returned.optimizations_applied[k].trip_ids :
             k \in DOMAIN batch.returned.optimizations_applied}
    ELSE {}

(* C23: once the call is over, a pair of placed trips has a shared-ride
   suggestion exactly when their requests have the same origin and the same
   destination and the trips start within 30 minutes of each other. *)
C23_SharedRideSuggestion ==
    batch.pc \in {"returned", "raised"} =>
        \A i, j \in DOMAIN batch.scheduled_results :
            (/\ i < j
             /\ batch.scheduled_results[i].scheduled_trip.status \in Placed
             /\ batch.scheduled_results[j].scheduled_trip.status \in Placed)
              => (<<batch.scheduled_results[i].scheduled_trip.request_id,
                    batch.scheduled_results[j].scheduled_trip.request_id>>
                      \in suggested_pairs
                  <=> /\ batch.scheduled_results[i].request.origin
                           = batch.scheduled_results[j].request.origin
                      /\ batch.scheduled_results[i].request.destination
                           = batch.scheduled_results[j].request.destination
                      /\ Abs(trip_start(batch.scheduled_results[i].scheduled_trip)
                             - trip_start(batch.scheduled_results[j].scheduled_trip))
                           <= 30)

(* C24: every call, whatever the number of trips it placed, returns, and
   what it returns lists every trip the scheduler placed. *)
C24_AdvisoryNeverBlocks ==
    batch.pc \in {"returned", "raised"} =>
        /\ batch.pc = "returned"
        /\ \A t \in DOMAIN scheduled_trips :
              scheduled_trips[t].status \in Placed =>
                \E k \in DOMAIN batch.returned.scheduled_trips :
                    batch.returned.scheduled_trips[k].scheduled_trip = scheduled_trips[t]

(* C30: the requests are processed most urgent first: no request is
   processed before one of a higher priority. *)
C30_MostUrgentFirst ==
    batch.pc # "idle" =>
        \A i, j \in DOMAIN batch.processed :
            i < j => batch.processed[i].priority >= batch.processed[j].priority

====
